---- MODULE Spec2Model ----
(***************************************************************************)
(* A model of fast_flights/core.py: the fetch orchestrator                 *)
(* (get_flights_from_filter), the markup extractor (parse_response), the   *)
(* ranking engine (_sort_and_limit_flights, get_top_sorted_flights) and    *)
(* the date-range aggregator (get_best_flights_across_dates).              *)
(*                                                                         *)
(* Display text (stop counts, prices, durations) is a sequence of          *)
(* one-character strings, so that split / replace / int() / float() are    *)
(* computed the way the Python code computes them.  Row fields that no     *)
(* decision of core.py reads (name, departure, arrival, delay, time ahead) *)
(* are left out of the rows.                                               *)
(***************************************************************************)
EXTENDS Integers, Sequences, FiniteSets, TLC

VARIABLES
    args,          \* arguments of the top-level get_flights_from_filter call
    frame,         \* arguments of the innermost get_flights_from_filter call
    depth,         \* number of get_flights_from_filter frames on the stack
    fpc,           \* position inside the innermost get_flights_from_filter
    res,           \* the local `res` of the innermost frame (a document)
    log,           \* history: the calls made since the top-level call began
    ret,           \* what the top-level get_flights_from_filter call gave
    range,         \* arguments of get_best_flights_across_dates
    apc,           \* position inside get_best_flights_across_dates
    current_date,  \* its local current_date
    all_flights,   \* its local all_flights
    price_levels,  \* its local price_levels
    cycles,        \* history: the dates whose fetch cycle it has started
    extracted,     \* history: every record parse_response returned to it
    out            \* what get_best_flights_across_dates gave

vars == <<args, frame, depth, fpc, res, log, ret, range, apc, current_date,
          all_flights, price_levels, cycles, extracted, out>>

fvars == <<args, frame, depth, fpc, res, log, ret>>
avars == <<range, apc, current_date, all_flights, price_levels, cycles,
           extracted, out>>

-----------------------------------------------------------------------------
(* Bounds of the model. *)

MaxSections == 2      \* result sections of a document
MaxRows == 2          \* rows of one section of a document
MaxGroupRows == 6     \* rows of the one section of a long document
UnitsPerDay == 2      \* clock resolution: instants per calendar day
MaxStartUnit == 1     \* start_date is an instant of day 0, 0..MaxStartUnit

-----------------------------------------------------------------------------
(* Python's str, int() and float() on sequences of characters. *)

Digits == <<"0", "1", "2", "3", "4", "5", "6", "7", "8", "9">>

IsDigit(c) == \E i \in 1..Len(Digits) : Digits[i] = c

DigitVal(c) == (CHOOSE i \in 1..Len(Digits) : Digits[i] = c) - 1

\* s[i:] of Python, 1-based
Drop(s, i) == SubSeq(s, i, Len(s))

MatchAt(s, pat, i) ==
    /\ i + Len(pat) - 1 <= Len(s)
    /\ \A k \in 1..Len(pat) : s[i + k - 1] = pat[k]

\* str.replace(pat, rep): every non-overlapping occurrence, left to right
RECURSIVE Replace(_, _, _)
Replace(s, pat, rep) ==
    IF s = <<>> THEN <<>>
    ELSE IF MatchAt(s, pat, 1)
         THEN rep \o Replace(Drop(s, Len(pat) + 1), pat, rep)
         ELSE <<Head(s)>> \o Replace(Tail(s), pat, rep)

\* str.split(c): the parts between the occurrences of the character c
RECURSIVE Split(_, _)
Split(s, c) ==
    IF \A i \in 1..Len(s) : s[i] # c THEN <<s>>
    ELSE LET i == CHOOSE j \in 1..Len(s) :
                     s[j] = c /\ \A k \in 1..(j - 1) : s[k] # c
         IN  <<SubSeq(s, 1, i - 1)>> \o Split(Drop(s, i + 1), c)

\* str.strip() for blanks
RECURSIVE Strip(_)
Strip(s) ==
    IF s = <<>> THEN s
    ELSE IF Head(s) = " " THEN Strip(Tail(s))
    ELSE IF s[Len(s)] = " " THEN Strip(SubSeq(s, 1, Len(s) - 1))
    ELSE s

RECURSIVE DigitsValue(_)
DigitsValue(s) ==
    IF s = <<>> THEN 0
    ELSE 10 * DigitsValue(SubSeq(s, 1, Len(s) - 1)) + DigitVal(s[Len(s)])

\* int(s): blanks stripped, an optional sign, then one or more digits;
\* anything else is a ValueError (ok = FALSE)
PyInt(s) ==
    LET t == Strip(s)
        signed == t # <<>> /\ Head(t) \in {"-", "+"}
        d == IF signed THEN Tail(t) ELSE t
    IN  IF d # <<>> /\ \A i \in 1..Len(d) : IsDigit(d[i])
        THEN [ok |-> TRUE,
              v |-> IF signed /\ Head(t) = "-" THEN 0 - DigitsValue(d)
                    ELSE DigitsValue(d)]
        ELSE [ok |-> FALSE, v |-> 0]

\* float(s) on the whole-number price texts of the model
PyFloat(s) == PyInt(s)

-----------------------------------------------------------------------------
(* The display texts the modelled pages carry. *)

Nonstop == <<"N", "o", "n", "s", "t", "o", "p">>
OneStop == <<"1", " ", "s", "t", "o", "p">>
Garbage == <<"g", "a", "r", "b", "a", "g", "e", " ", "t", "e", "x", "t">>
Empty == <<>>

Price300 == <<"$", "3", "0", "0">>
Price950 == <<"$", "9", "5", "0">>
Price1200 == <<"$", "1", ",", "2", "0", "0">>

Dur5h == <<"5", " ", "h", "r", " ", "0", " ", "m", "i", "n">>
Dur3h == <<"3", " ", "h", "r", " ", "0", " ", "m", "i", "n">>
Dur3h10 == <<"3", " ", "h", "r", " ", "1", "0", " ", "m", "i", "n">>

\* One <li> row of a result section: the texts of its stops, price and
\* duration nodes (Empty when the node is absent: safe() gives blank).
Row(stops, price, duration) ==
    [stops |-> stops, price |-> price, duration |-> duration]

RowCheapSlow == Row(Nonstop, Price300, Dur5h)
RowDearFast == Row(Nonstop, Price1200, Dur3h)
RowOneStop == Row(OneStop, Price950, Dur3h10)
RowUnknown == Row(Garbage, Empty, Empty)

\* A fetched document: its result sections in document order, each the
\* list of its rows, and the text of the page-level price label node.
Doc(sections, label) == [sections |-> sections, label |-> label]

\* All sequences over S of length 0..n
SeqsUpTo(S, n) == UNION {[1..k -> S] : k \in 0..n}

-----------------------------------------------------------------------------
(* parse_response *)

\* The value of Flight.stops: an int, or the string "Unknown"
IntStops(n) == [isInt |-> TRUE, n |-> n]
UnknownStops == [isInt |-> FALSE, n |-> 0]

\* Stops formatting
StopsFmt(stops) ==
    IF stops = Nonstop THEN IntStops(0)
    ELSE LET first == Split(stops, " ")[1]
             n == PyInt(first)
         IN  IF n.ok THEN IntStops(n.v) ELSE UnknownStops

\* The dict a row becomes, then Flight(**fl); date is unset (<<>>)
FlightOf(item, is_best_flight) ==
    [is_best |-> is_best_flight,
     stops |-> StopsFmt(item.stops),
     duration |-> item.duration,
     price |-> Replace(IF item.price = Empty THEN <<"0">> ELSE item.price,
                       <<",">>, <<>>),
     date |-> <<>>]

\* Mutant: the last row is dropped in the first section too
SectionItemsDropLastEverywhere(items, i, allow_last) ==
    IF allow_last THEN items ELSE SubSeq(items, 1, Len(items) - 1)

\* fl.css("ul.Rk10dc li")[: (None if allow or i == 0 else -1)]
SectionItems(items, i, allow_last) ==
    IF allow_last \/ i = 1 THEN items
    ELSE SubSeq(items, 1, Len(items) - 1)

RECURSIVE ExtractFrom(_, _, _)
ExtractFrom(sections, i, allow_last) ==
    IF i > Len(sections) THEN <<>>
    ELSE LET items == SectionItems(sections[i], i, allow_last)
         IN  [k \in 1..Len(items) |-> FlightOf(items[k], i = 1)]
             \o ExtractFrom(sections, i + 1, allow_last)

\* What a call gives: a Result, or the exception it raises with its message
NoOutcome ==
    [kind |-> "none", current_price |-> "", flights |-> <<>>, msg |-> <<>>]
Result(current_price, flights) ==
    [kind |-> "Result", current_price |-> current_price, flights |-> flights,
     msg |-> <<>>]
Raise(kind, msg) ==
    [kind |-> kind, current_price |-> "", flights |-> <<>>, msg |-> msg]

\* Mutant: no check for an empty list of flights
parse_response_unchecked(r, dangerously_allow_looping_last_item) ==
    Result(r.label, ExtractFrom(r.sections, 1, dangerously_allow_looping_last_item))

parse_response(r, dangerously_allow_looping_last_item) ==
    LET flights == ExtractFrom(r.sections, 1, dangerously_allow_looping_last_item)
    IN  IF flights = <<>> THEN Raise("RuntimeError", <<"No flights found", r>>)
        ELSE Result(r.label, flights)

-----------------------------------------------------------------------------
(* The ranking engine *)

Limit == 5

SortMethods == {"best", "price", "duration"}

\* _parse_duration: minutes as <<0, m>>, float('inf') as <<1, 0>>, so that
\* the order of the pairs is the order of the numbers
_parse_duration(duration) ==
    LET parts == Split(Replace(Replace(duration, <<" ", "h", "r", " ">>, <<":">>),
                               <<" ", "m", "i", "n">>, <<>>), ":")
    IN  IF Len(parts) # 2 THEN <<1, 0>>
        ELSE LET hours == PyInt(parts[1])
                 minutes == PyInt(parts[2])
             IN  IF hours.ok /\ minutes.ok
                 THEN <<0, hours.v * 60 + minutes.v>>
                 ELSE <<1, 0>>

\* float(f.price.replace("$", "").replace(",", ""))
PriceValue(f) == PyFloat(Replace(Replace(f.price, <<"$">>, <<>>), <<",">>, <<>>))

\* Whether the key function of _get_sort_key raises ValueError on f
KeyRaises(f, sort_method) ==
    sort_method \in {"best", "price"} /\ ~PriceValue(f).ok

\* _get_sort_key(sort_method)(f), the tuple flattened
_get_sort_key(f, sort_method) ==
    IF sort_method = "best"
    THEN <<IF f.is_best THEN 0 ELSE 1, PriceValue(f).v>> \o _parse_duration(f.duration)
    ELSE IF sort_method = "price" THEN <<PriceValue(f).v>>
    ELSE _parse_duration(f.duration)

\* a < b for two keys of the same length (Python's tuple order)
RECURSIVE KeyLess(_, _)
KeyLess(a, b) ==
    IF a = <<>> THEN FALSE
    ELSE IF Head(a) # Head(b) THEN Head(a) < Head(b)
    ELSE KeyLess(Tail(a), Tail(b))

\* One step of a stable sort: x goes after every element not greater than it
RECURSIVE InsertByKey(_, _)
InsertByKey(sorted, x) ==
    IF sorted = <<>> THEN <<x>>
    ELSE IF KeyLess(x.key, Head(sorted).key) THEN <<x>> \o sorted
    ELSE <<Head(sorted)>> \o InsertByKey(Tail(sorted), x)

RECURSIVE SortDecorated(_)
SortDecorated(s) ==
    IF s = <<>> THEN <<>>
    ELSE InsertByKey(SortDecorated(SubSeq(s, 1, Len(s) - 1)), s[Len(s)])

\* sorted(flights, key=...): stable, ascending; keys[i] is the key of flights[i]
Sorted(flights, keys) ==
    LET d == SortDecorated([i \in 1..Len(flights) |->
                                [key |-> keys[i], val |-> flights[i]]])
    IN  [i \in 1..Len(d) |-> d[i].val]

\* s[:n]
Take(s, n) == SubSeq(s, 1, IF Len(s) < n THEN Len(s) ELSE n)

\* Mutant: the first `limit` flights, unsorted
_sort_and_limit_flights_unsorted(flights, sort_method) == Take(flights, Limit)

\* sorted(flights, key=_get_sort_key(sort_method))[:limit]; no ValueError case
_sort_and_limit_flights(flights, sort_method) ==
    Take(Sorted(flights, [i \in 1..Len(flights) |->
                              _get_sort_key(flights[i], sort_method)]), Limit)

SortRaises(flights, sort_method) ==
    \E i \in 1..Len(flights) : KeyRaises(flights[i], sort_method)

\* sorted(..., key=attrgetter("stops")) compares an int with a str: TypeError
StopsMixed(flights) ==
    \E i, j \in 1..Len(flights) : flights[i].stops.isInt /\ ~flights[j].stops.isInt

\* groupby on the list sorted by stops: the maximal runs of equal stops
RECURSIVE GroupBy(_)
GroupBy(s) ==
    IF s = <<>> THEN <<>>
    ELSE LET n == CHOOSE k \in 1..Len(s) :
                     /\ \A i \in 1..k : s[i].stops = s[1].stops
                     /\ k < Len(s) => s[k + 1].stops # s[1].stops
         IN  <<SubSeq(s, 1, n)>> \o GroupBy(Drop(s, n + 1))

RECURSIVE Concat(_)
Concat(ss) == IF ss = <<>> THEN <<>> ELSE Head(ss) \o Concat(Tail(ss))

\* The grouping and ranking part of get_top_sorted_flights, on the Result of
\* get_flights
TopSorted(result, sort_method) ==
    IF StopsMixed(result.flights) THEN Raise("TypeError", <<"'<' not supported">>)
    ELSE IF SortRaises(result.flights, sort_method)
    THEN Raise("ValueError", <<"could not convert string to float">>)
    ELSE LET by_stops == Sorted(result.flights,
                                [i \in 1..Len(result.flights) |->
                                     <<result.flights[i].stops.n>>])
             groups == GroupBy(by_stops)
             flights_by_stops == [g \in 1..Len(groups) |->
                                      _sort_and_limit_flights(groups[g], sort_method)]
         IN  Result(result.current_price, Concat(flights_by_stops))

-----------------------------------------------------------------------------
(* The search site and the transports *)

Modes == {"common", "fallback", "force-fallback", "local"}

\* TFSData: the query a filter stands for; core.py never looks inside it
Filter(from_airport, date) == [from_airport |-> from_airport, date |-> date]

\* filter.as_b64().decode("utf-8"): an opaque token of the filter
AsB64(filter) == <<"b64", filter.from_airport, filter.date>>

\* The params dict of get_flights_from_filter
Params(filter, currency) ==
    [tfs |-> AsB64(filter), hl |-> "en", tfu |-> "EgQIABABIgA", curr |-> currency]

\* The arguments of one get_flights_from_filter call
CallArgs(filter, currency, mode) ==
    [filter |-> filter, currency |-> currency, mode |-> mode]

NoDoc == Doc(<<>>, "<unbound>")

\* Status codes of the direct transport other than 200
FailureStatus == {429}

\* The pages the site may serve for a query, by the airport searched from:
\*  LAX  every page of up to MaxSections sections of up to MaxRows rows
\*  SFO  two pages with offers, a page with none, and a page with an
\*       unparseable stop count next to a parseable one
\*  SEA  a page with one offer under every price label, and the two pages
\*       without a ranking of SFO
\*  JFK  on day 0 a first section of up to MaxGroupRows nonstop rows and a
\*       second section; short pages on the other days
LabelTexts == {"low", "typical", "high", ""}

PageNoOffers == Doc(<<<<>>, <<RowOneStop>>>>, "low")
PageMixedStops == Doc(<<<<RowCheapSlow, RowUnknown>>>>, "typical")

LaxPages ==
    {Doc(ss, "typical") :
        ss \in SeqsUpTo(SeqsUpTo({RowCheapSlow, RowUnknown}, MaxRows), MaxSections)}

SfoPages ==
    {Doc(<<<<RowCheapSlow>>>>, "low"),
     Doc(<<<<RowOneStop>>, <<RowDearFast, RowDearFast>>>>, "high"),
     PageNoOffers, PageMixedStops}

SeaPages ==
    {Doc(<<<<RowOneStop>>>>, l) : l \in LabelTexts} \cup {PageNoOffers, PageMixedStops}

JfkBusyPages ==
    {Doc(<<s1, <<RowCheapSlow, RowOneStop, RowOneStop>>>>, "typical") :
        s1 \in SeqsUpTo({RowCheapSlow, RowDearFast}, MaxGroupRows)}

JfkQuietPages ==
    {Doc(<<<<RowDearFast>>, <<RowCheapSlow, RowCheapSlow>>>>, "low"),
     Doc(<<<<RowCheapSlow, RowDearFast, RowOneStop>>>>, "high"),
     PageNoOffers, PageMixedStops}

Pages(filter) ==
    CASE filter.from_airport = "LAX" -> LaxPages
      [] filter.from_airport = "SFO" -> SfoPages
      [] filter.from_airport = "SEA" -> SeaPages
      [] filter.from_airport = "JFK" ->
            IF filter.date = 0 THEN JfkBusyPages ELSE JfkQuietPages

\* One entry of the call history: the function called, the mode of the
\* get_flights_from_filter frame calling it (for get_flights_from_filter, the
\* mode it is called with), the params of that frame, and how the call ended
Event(op, a, result) ==
    [op |-> op, mode |-> a.mode, params |-> Params(a.filter, a.currency),
     result |-> result]

-----------------------------------------------------------------------------
(* get_flights_from_filter *)

\* The call begins: params is built, nothing is fetched yet
Enter(a) ==
    /\ args' = a
    /\ frame' = a
    /\ depth' = 1
    /\ fpc' = "enter"
    /\ res' = NoDoc
    /\ log' = <<Event("get_flights_from_filter", a, "")>>
    /\ ret' = NoOutcome

\* The call ends, and with it every frame below it: `return parse_response`
\* and `return get_flights_from_filter(...)` hand the value up, an exception
\* not caught unwinds
Leave(outcome) ==
    /\ ret' = outcome
    /\ depth' = 0
    /\ fpc' = "done"

\* fetch(params) answers 200
FetchOk ==
    /\ fpc = "enter"
    /\ frame.mode \in {"common", "fallback"}
    /\ \E doc \in Pages(frame.filter) : res' = doc
    /\ log' = Append(log, Event("fetch", frame, "200"))
    /\ fpc' = "parse"
    /\ UNCHANGED <<args, frame, depth, ret, avars>>

\* Mutant: the handler goes on in mode common as it does in mode fallback
FetchFailCommonFallsBack ==
    /\ fpc = "enter"
    /\ frame.mode = "common"
    /\ \E status \in FailureStatus : fpc' = "except"
    /\ log' = Append(log, Event("fetch", frame, "AssertionError"))
    /\ UNCHANGED <<args, frame, depth, res, ret, avars>>

\* fetch(params) fails its assertion in mode common: `raise e`
FetchFailCommon ==
    /\ fpc = "enter"
    /\ frame.mode = "common"
    /\ \E status \in FailureStatus : Leave(Raise("AssertionError", <<status>>))
    /\ log' = Append(log, Event("fetch", frame, "AssertionError"))
    /\ UNCHANGED <<args, frame, res, avars>>

\* fetch(params) fails its assertion in mode fallback: the handler goes on
FetchFailFallback ==
    /\ fpc = "enter"
    /\ frame.mode = "fallback"
    /\ \E status \in FailureStatus : fpc' = "except"
    /\ log' = Append(log, Event("fetch", frame, "AssertionError"))
    /\ UNCHANGED <<args, frame, depth, res, ret, avars>>

\* res = fallback_playwright_fetch(params), in the handler or in the else
\* branch.  The browser transports hand back a document whatever the page
\* holds; a page without offers shows up in parse_response.
FallbackFetch ==
    /\ \/ fpc = "except"
       \/ fpc = "enter" /\ frame.mode = "force-fallback"
    /\ \E doc \in Pages(frame.filter) : res' = doc
    /\ log' = Append(log, Event("fallback_playwright_fetch", frame, "200"))
    /\ fpc' = "parse"
    /\ UNCHANGED <<args, frame, depth, ret, avars>>

\* res = local_playwright_fetch(params)
LocalFetch ==
    /\ fpc = "enter"
    /\ frame.mode = "local"
    /\ \E doc \in Pages(frame.filter) : res' = doc
    /\ log' = Append(log, Event("local_playwright_fetch", frame, "200"))
    /\ fpc' = "parse"
    /\ UNCHANGED <<args, frame, depth, ret, avars>>

\* return parse_response(res)
ParseReturn ==
    /\ fpc = "parse"
    /\ LET outcome == parse_response(res, FALSE)
       IN  outcome.kind = "Result" /\ Leave(outcome)
    /\ log' = Append(log, Event("parse_response", frame, "Result"))
    /\ UNCHANGED <<args, frame, res, avars>>

\* Mutant: the call is made again in the mode it was made in
EscalationKeepsMode(a) == CallArgs(a.filter, "", a.mode)

\* The arguments of `get_flights_from_filter(filter, mode="force-fallback")`
Escalation(a) == CallArgs(a.filter, "", "force-fallback")

\* parse_response raises RuntimeError in mode fallback: the call is made again
ParseEscalate ==
    /\ fpc = "parse"
    /\ frame.mode = "fallback"
    /\ parse_response(res, FALSE).kind = "RuntimeError"
    /\ frame' = Escalation(frame)
    /\ depth' = depth + 1
    /\ fpc' = "enter"
    /\ res' = NoDoc
    /\ log' = log \o <<Event("parse_response", frame, "RuntimeError"),
                       Event("get_flights_from_filter", Escalation(frame), "")>>
    /\ UNCHANGED <<args, ret, avars>>

\* parse_response raises RuntimeError in any other mode: `raise e`
ParseRaise ==
    /\ fpc = "parse"
    /\ frame.mode # "fallback"
    /\ LET outcome == parse_response(res, FALSE)
       IN  outcome.kind = "RuntimeError" /\ Leave(outcome)
    /\ log' = Append(log, Event("parse_response", frame, "RuntimeError"))
    /\ UNCHANGED <<args, frame, res, avars>>

NextFilter ==
    \/ FetchOk
    \/ FetchFailCommon
    \/ FetchFailFallback
    \/ FallbackFetch
    \/ LocalFetch
    \/ ParseReturn
    \/ ParseEscalate
    \/ ParseRaise

NoRange ==
    [start_date |-> 0, end_date |-> 0, from_airport |-> "", fetch_mode |-> "",
     sort_method |-> ""]

\* A caller has just called get_flights_from_filter(filter, currency, mode=mode)
InitFilter ==
    /\ \E currency \in {"", "USD"}, mode \in Modes :
          LET a == CallArgs(Filter("LAX", 0), currency, mode)
          IN  /\ args = a
              /\ frame = a
              /\ log = <<Event("get_flights_from_filter", a, "")>>
    /\ depth = 1
    /\ fpc = "enter"
    /\ res = NoDoc
    /\ ret = NoOutcome
    /\ range = NoRange
    /\ apc = "none"
    /\ current_date = 0
    /\ all_flights = <<>>
    /\ price_levels = <<>>
    /\ cycles = <<>>
    /\ extracted = <<>>
    /\ out = NoOutcome

SpecFilter == InitFilter /\ [][NextFilter]_vars

-----------------------------------------------------------------------------
(* get_best_flights_across_dates *)

MaxSpan == 5

\* A datetime is a count of instants, UnitsPerDay of them to the calendar day;
\* timedelta(days=1) is UnitsPerDay instants
OneDay == UnitsPerDay

\* (end_date - start_date).days: whole days, rounded down
DateDiff(r) == (r.end_date - r.start_date) \div UnitsPerDay

\* current_date.strftime("%Y-%m-%d"): the calendar day of the instant
DateStr(t) == t \div UnitsPerDay

\* Mutant: a span of one more day is let through
RangeErrorOffByOne(r) ==
    IF DateDiff(r) < 0 THEN <<"end_date must be after start_date">>
    ELSE IF DateDiff(r) > MaxSpan + 1 THEN <<"Maximum date range is 5 days">>
    ELSE <<>>

\* Validate date range
RangeError(r) ==
    IF DateDiff(r) < 0 THEN <<"end_date must be after start_date">>
    ELSE IF DateDiff(r) > MaxSpan THEN <<"Maximum date range is 5 days">>
    ELSE <<>>

\* flight.date = current_date.strftime("%Y-%m-%d") for every flight
Stamp(flights, t) ==
    [i \in 1..Len(flights) |-> [flights[i] EXCEPT !.date = <<DateStr(t)>>]]

\* Mutant: the level of the last day
OverallPriceLastDay(levels) ==
    IF levels # <<>> /\ levels[Len(levels)] \in {"low", "typical"}
    THEN levels[Len(levels)]
    ELSE "high"

\* Determine overall price level
OverallPrice(levels) ==
    IF \E i \in 1..Len(levels) : levels[i] = "low" THEN "low"
    ELSE IF \E i \in 1..Len(levels) : levels[i] = "typical" THEN "typical"
    ELSE "high"

\* The range is refused: ValueError
Reject ==
    /\ apc = "validate"
    /\ RangeError(range) # <<>>
    /\ out' = Raise("ValueError", RangeError(range))
    /\ apc' = "done"
    /\ UNCHANGED <<fvars, range, current_date, all_flights, price_levels,
                   cycles, extracted>>

\* The range is accepted: the loop starts at start_date
Accept ==
    /\ apc = "validate"
    /\ RangeError(range) = <<>>
    /\ current_date' = range.start_date
    /\ all_flights' = <<>>
    /\ price_levels' = <<>>
    /\ apc' = "loop"
    /\ UNCHANGED <<fvars, range, cycles, extracted, out>>

\* One more day: get_top_sorted_flights calls get_flights, which calls
\* get_flights_from_filter(TFSData.from_interface(...), mode=fetch_mode)
DayStart ==
    /\ apc = "loop"
    /\ current_date <= range.end_date
    /\ Enter(CallArgs(Filter(range.from_airport, DateStr(current_date)), "",
                      range.fetch_mode))
    /\ cycles' = Append(cycles, DateStr(current_date))
    /\ apc' = "await"
    /\ UNCHANGED <<range, current_date, all_flights, price_levels, extracted, out>>

\* The day's Result is grouped and ranked, stamped and kept.  The history
\* `extracted` takes every record of the day, ranked or dropped, with the day.
DayRanked ==
    /\ apc = "await"
    /\ fpc = "done"
    /\ ret.kind = "Result"
    /\ LET result == TopSorted(ret, range.sort_method)
       IN  /\ result.kind = "Result"
           /\ price_levels' = Append(price_levels, result.current_price)
           /\ all_flights' = all_flights \o Stamp(result.flights, current_date)
    /\ extracted' = extracted \o Stamp(ret.flights, current_date)
    /\ current_date' = current_date + OneDay
    /\ apc' = "loop"
    /\ fpc' = "idle"
    /\ UNCHANGED <<args, frame, depth, res, log, ret, range, cycles, out>>

\* Grouping or ranking the day's Result raises: the exception leaves the call
DayRankFails ==
    /\ apc = "await"
    /\ fpc = "done"
    /\ ret.kind = "Result"
    /\ LET result == TopSorted(ret, range.sort_method)
       IN  result.kind # "Result" /\ out' = result
    /\ apc' = "done"
    /\ fpc' = "idle"
    /\ UNCHANGED <<args, frame, depth, res, log, ret, range, current_date,
                   all_flights, price_levels, cycles, extracted>>

\* Mutant: a day that fails is skipped
DayFailsSkipsDay ==
    /\ apc = "await"
    /\ fpc = "done"
    /\ ret.kind # "Result"
    /\ current_date' = current_date + OneDay
    /\ apc' = "loop"
    /\ fpc' = "idle"
    /\ UNCHANGED <<args, frame, depth, res, log, ret, range, all_flights,
                   price_levels, cycles, extracted, out>>

\* The day's get_flights_from_filter raised: the exception leaves the call
DayFails ==
    /\ apc = "await"
    /\ fpc = "done"
    /\ ret.kind # "Result"
    /\ out' = ret
    /\ apc' = "done"
    /\ fpc' = "idle"
    /\ UNCHANGED <<args, frame, depth, res, log, ret, range, current_date,
                   all_flights, price_levels, cycles, extracted>>

\* Past end_date: the best of all days and the overall price level
Finish ==
    /\ apc = "loop"
    /\ current_date > range.end_date
    /\ out' = IF SortRaises(all_flights, range.sort_method)
              THEN Raise("ValueError", <<"could not convert string to float">>)
              ELSE Result(OverallPrice(price_levels),
                          _sort_and_limit_flights(all_flights, range.sort_method))
    /\ apc' = "done"
    /\ UNCHANGED <<fvars, range, current_date, all_flights, price_levels,
                   cycles, extracted>>

NextRange ==
    \/ Reject
    \/ Accept
    \/ DayStart
    \/ NextFilter
    \/ DayRanked
    \/ DayRankFails
    \/ DayFails
    \/ Finish

RangeArgs(start_date, end_date, from_airport, fetch_mode, sort_method) ==
    [start_date |-> start_date, end_date |-> end_date,
     from_airport |-> from_airport, fetch_mode |-> fetch_mode,
     sort_method |-> sort_method]

\* A caller has just called get_best_flights_across_dates with arguments r
Called(r) ==
    /\ range = r
    /\ apc = "validate"
    /\ current_date = 0
    /\ all_flights = <<>>
    /\ price_levels = <<>>
    /\ cycles = <<>>
    /\ extracted = <<>>
    /\ out = NoOutcome
    /\ args = CallArgs(Filter("", 0), "", "")
    /\ frame = CallArgs(Filter("", 0), "", "")
    /\ depth = 0
    /\ fpc = "idle"
    /\ res = NoDoc
    /\ log = <<>>
    /\ ret = NoOutcome

StartTimes == 0..MaxStartUnit

\* From SFO: every start of day 0, ends from before the start to past the
\* longest range accepted
InitRange ==
    \E s \in StartTimes, e \in (0 - 1)..((MaxSpan + 2) * UnitsPerDay), m \in Modes :
        Called(RangeArgs(s, e, "SFO", m, "best"))

SpecRange == InitRange /\ [][NextRange]_vars

\* From SEA: ranges of up to three days
InitLabel ==
    \E s \in StartTimes, e \in (0 - 1)..(3 * UnitsPerDay - 1) \cup {7 * UnitsPerDay},
       m \in Modes :
        Called(RangeArgs(s, e, "SEA", m, "best"))

SpecLabel == InitLabel /\ [][NextRange]_vars

\* From JFK at the first instant of day 0: an end before the start, a range
\* of two days, a range too long; under every sort method
InitRank ==
    \E e \in {0 - 1, UnitsPerDay, (MaxSpan + 2) * UnitsPerDay},
       m \in Modes, sm \in SortMethods :
        Called(RangeArgs(0, e, "JFK", m, sm))

SpecRank == InitRank /\ [][NextRange]_vars

-----------------------------------------------------------------------------
(* Claims about get_flights_from_filter and parse_response, under SpecFilter *)

\* The calls get_flights_from_filter has made to itself
Escalations == {i \in 2..Len(log) : log[i].op = "get_flights_from_filter"}

Called1(op) == {i \in 1..Len(log) : log[i].op = op}

\* The direct transport failed and the fallback document had no flights
DirectFailedThenNoFlights ==
    /\ Len(log) >= 4
    /\ log[2].op = "fetch" /\ log[2].result = "AssertionError"
    /\ log[3].op = "fallback_playwright_fetch"
    /\ log[4].op = "parse_response" /\ log[4].result = "RuntimeError"

\* C1: a top-level call in mode fallback calls itself at most once, and only
\* in mode force-fallback.  When the direct transport fails and the fallback
\* document has no flights, the finished call has made exactly one such call,
\* which fetched once through the fallback transport, extracted once and made
\* no further call; if that extraction found no flights, its RuntimeError,
\* about the document the force-fallback call fetched, is what the caller gets.
C1_EscalationBound ==
    args.mode = "fallback" =>
        /\ Cardinality(Escalations) <= 1
        /\ \A i \in Escalations : log[i].mode = "force-fallback"
        /\ depth <= 2
        /\ (fpc = "done" /\ DirectFailedThenNoFlights) =>
              /\ Cardinality(Escalations) = 1
              /\ Len(log) = 7
              /\ log[5].op = "get_flights_from_filter"
              /\ log[6].op = "fallback_playwright_fetch"
              /\ log[6].mode = "force-fallback"
              /\ log[7].op = "parse_response"
              /\ log[7].mode = "force-fallback"
              /\ log[7].result = ret.kind
              /\ log[7].result = "RuntimeError" =>
                    ret = Raise("RuntimeError", <<"No flights found", res>>)

C1_Witness ==
    /\ args.mode = "fallback"
    /\ fpc = "done"
    /\ DirectFailedThenNoFlights
    /\ Cardinality(Escalations) = 1
    /\ ret.kind = "RuntimeError"

\* C2: in mode common, once the direct transport has answered with a failure
\* status, the call has ended with that AssertionError: no other transport
\* was called, parse_response was not run, no Result was returned.
C2_CommonFailureIsFinal ==
    (args.mode = "common" /\ \E i \in Called1("fetch") : log[i].result # "200") =>
        /\ fpc = "done"
        /\ ret.kind = "AssertionError"
        /\ ret.msg \in {<<st>> : st \in FailureStatus}
        /\ ret.flights = <<>>
        /\ Called1("fallback_playwright_fetch") = {}
        /\ Called1("local_playwright_fetch") = {}
        /\ Called1("parse_response") = {}
        /\ Escalations = {}

C2_Witness ==
    /\ args.mode = "common"
    /\ fpc = "done"
    /\ ret.kind = "AssertionError"
    /\ Len(log) = 2

\* The rows of a document that are offers: all of the first section, all but
\* the last of every other section
RECURSIVE OfferCount(_, _)
OfferCount(sections, i) ==
    IF i > Len(sections) THEN 0
    ELSE (IF i = 1 THEN Len(sections[i])
          ELSE IF Len(sections[i]) = 0 THEN 0 ELSE Len(sections[i]) - 1)
         + OfferCount(sections, i + 1)

\* The call has ended in the frame that fetched and parsed the document res
ParsedRes == fpc = "done" /\ res # NoDoc

\* C3: a call that parsed a document with no offer rows ends with the
\* RuntimeError "No flights found" about that document, and a Result never
\* has an empty list of flights.
C3_NoFlightsRaises ==
    ParsedRes =>
        /\ OfferCount(res.sections, 1) = 0 =>
              ret = Raise("RuntimeError", <<"No flights found", res>>)
        /\ ret.kind = "Result" => ret.flights # <<>>

C3_Witness ==
    /\ ParsedRes
    /\ Len(res.sections) = 2
    /\ Len(res.sections[2]) = 1
    /\ OfferCount(res.sections, 1) = 0
    /\ ret.kind = "RuntimeError"

\* C4: for a parsed document of two sections, of N and M rows, the Result
\* holds the N rows of the first section with is_best true, then the first
\* M - 1 rows of the second with is_best false, in document order (none when
\* the second section is empty); there is a Result unless that list is empty.
C4_BestThenRestButLast ==
    (ParsedRes /\ Len(res.sections) = 2) =>
        LET N == Len(res.sections[1])
            M == Len(res.sections[2])
            rest == IF M = 0 THEN 0 ELSE M - 1
        IN  IF N + rest = 0 THEN ret.kind = "RuntimeError"
            ELSE /\ ret.kind = "Result"
                 /\ Len(ret.flights) = N + rest
                 /\ \A k \in 1..N :
                       /\ ret.flights[k].is_best = TRUE
                       /\ ret.flights[k] = FlightOf(res.sections[1][k], TRUE)
                 /\ \A k \in 1..rest :
                       /\ ret.flights[N + k].is_best = FALSE
                       /\ ret.flights[N + k] = FlightOf(res.sections[2][k], FALSE)

C4_Witness ==
    /\ ParsedRes
    /\ Len(res.sections) = 2
    /\ Len(res.sections[1]) = 2
    /\ Len(res.sections[2]) = 2
    /\ res.sections[2][1] # res.sections[2][2]
    /\ res.sections[1][1] # res.sections[1][2]
    /\ ret.kind = "Result"
    /\ Len(ret.flights) = 3

\* C10: every call recorded in the history of a top-level call in mode
\* fallback, the escalated call and its transport call included, carries the
\* params of the top-level call: token, locale tag, feature tag and currency.
C10_EscalationKeepsParams ==
    args.mode = "fallback" =>
        \A i \in 1..Len(log) : log[i].params = Params(args.filter, args.currency)

-----------------------------------------------------------------------------
(* Claims about get_top_sorted_flights and get_best_flights_across_dates *)

\* The Result of the day's get_flights has been grouped and ranked, or the
\* attempt has raised
Ranked == ret.kind = "Result" /\ apc \in {"loop", "done"}

\* The records all_flights holds of the day ranked last
LastRanked ==
    SelectSeq(all_flights, LAMBDA f : f.date = <<cycles[Len(cycles)]>>)

\* C5: when the day's records hold both integer stop counts and the Unknown
\* sentinel, grouping and ranking them completes without failure and puts
\* the sentinel group after every group of an integer stop count.
C5_UnknownGroupSortsLast ==
    (Ranked /\ StopsMixed(ret.flights)) =>
        /\ out.kind \notin {"TypeError", "ValueError"}
        /\ LastRanked # <<>>
        /\ \A i, j \in 1..Len(LastRanked) :
              (~LastRanked[i].stops.isInt /\ LastRanked[j].stops.isInt) => j < i

RangeMessages ==
    {<<"end_date must be after start_date">>, <<"Maximum date range is 5 days">>}

Refused == out.kind = "ValueError" /\ out.msg \in RangeMessages

\* The calendar days from the day of start_date on
DaysFrom(r, n) == [i \in 1..n |-> DateStr(r.start_date) + i - 1]

\* C6: a call whose end_date is before start_date, or MaxSpan + 1 days or more
\* after it, is refused with a ValueError before any fetch cycle or transport
\* call; a call whose end_date is start_date + MaxSpan days is not refused and,
\* when it returns, has run one fetch cycle for each of the MaxSpan + 1
\* calendar days from start_date on.  No call runs more cycles than that.
C6_RangeValidation ==
    LET s == range.start_date
        e == range.end_date
    IN  /\ (e < s \/ e >= s + (MaxSpan + 1) * OneDay) =>
              /\ cycles = <<>>
              /\ log = <<>>
              /\ apc # "validate" => (apc = "done" /\ Refused)
        /\ e = s + MaxSpan * OneDay =>
              /\ ~Refused
              /\ out.kind = "Result" => cycles = DaysFrom(range, MaxSpan + 1)
        /\ Len(cycles) <= MaxSpan + 1

C6_Witness ==
    /\ range.end_date = range.start_date + MaxSpan * OneDay
    /\ range.start_date % UnitsPerDay # 0
    /\ out.kind = "Result"
    /\ Len(cycles) = MaxSpan + 1

\* The fetch cycle of the last day started has failed
CycleFailed == apc = "await" /\ fpc = "done" /\ ret.kind # "Result"

\* C7: fetch cycles are started one at a time, for consecutive calendar days
\* from the day of start_date on, each only when the one before has been
\* ranked and kept.  When the cycle of a day fails, the next step ends the
\* call with that failure, without another cycle and without a Result, and
\* nothing happens after the call has ended.
C7_FailFast ==
    /\ [](cycles = DaysFrom(range, Len(cycles)))
    /\ [][cycles' # cycles =>
            /\ apc = "loop" /\ fpc = "idle"
            /\ Len(price_levels) = Len(cycles)
            /\ Len(cycles') = Len(cycles) + 1]_vars
    /\ [][CycleFailed =>
            /\ apc' = "done"
            /\ out' = ret
            /\ out'.kind \in {"AssertionError", "RuntimeError"}
            /\ cycles' = cycles]_vars
    /\ [][apc # "done"]_vars

C7_Witness ==
    /\ apc = "done"
    /\ out.kind = "RuntimeError"
    /\ all_flights # <<>>
    /\ Len(cycles) >= 2
    /\ Len(cycles) < DateDiff(range) + 1

\* The sort key of a record under the caller's sort method
Key(f) == _get_sort_key(f, range.sort_method)

Occurrences(seq, f) == Cardinality({i \in 1..Len(seq) : seq[i] = f})

\* C8: a Result of get_best_flights_across_dates holds the best Limit of the
\* records extracted on the days of the range: as many as there are, up to
\* Limit; in non-decreasing order of the sort key; each an extracted record;
\* and no extracted record with a smaller key than a returned one is left out.
C8_CrossDateBest ==
    (apc = "done" /\ out.kind = "Result") =>
        LET best == out.flights
        IN  /\ Len(best) = IF Len(extracted) < Limit THEN Len(extracted) ELSE Limit
            /\ \A i \in 1..(Len(best) - 1) : ~KeyLess(Key(best[i + 1]), Key(best[i]))
            /\ \A i \in 1..Len(best) :
                  Occurrences(best, best[i]) <= Occurrences(extracted, best[i])
            /\ \A j \in 1..Len(extracted) :
                  (\E i \in 1..Len(best) : KeyLess(Key(extracted[j]), Key(best[i])))
                      => Occurrences(best, extracted[j])
                             = Occurrences(extracted, extracted[j])

\* A day's grouped pass dropped records, and so did the pass over all days
C8_Witness ==
    /\ apc = "done"
    /\ out.kind = "Result"
    /\ Len(cycles) = 2
    /\ Len(all_flights) < Len(extracted)
    /\ Len(all_flights) > Limit
    /\ \E i \in 1..Len(out.flights) : out.flights[i].date = <<1>>
    /\ \E i \in 1..Len(out.flights) : ~out.flights[i].is_best

\* The labels of the days of the range, one for each day fetched
LevelsSeen == {price_levels[i] : i \in 1..Len(price_levels)}

====
